---- MODULE Spec2Model ----
(***************************************************************************)
(* A model of src/util.js of titaniumlib: extractZip (the zip extraction   *)
(* loop driven by the events of a lazily read archive), with the file      *)
(* system, the archive reader and the streams as its environment, and      *)
(* buildRequestParams (the network options mixed into request params).     *)
(***************************************************************************)
EXTENDS Integers, Sequences, FiniteSets, TLC

(* ---------------------------------------------------------------------- *)
(* Bounds of the model                                                     *)
(* ---------------------------------------------------------------------- *)

\* the longest archive (number of entries) that yauzl.open hands over
MaxEntries == 3

(* ---------------------------------------------------------------------- *)
(* Program constants                                                       *)
(* ---------------------------------------------------------------------- *)

\* fs.constants.S_IFMT  (0o170000)
S_IFMT == 61440
\* fs.constants.S_IFLNK (0o120000)
S_IFLNK == 40960
\* fs.constants.S_IFDIR (0o040000)
S_IFDIR == 16384
\* the default permission mode 0o644
DefaultMode == 420

(* ---------------------------------------------------------------------- *)
(* JavaScript values of the parameters                                     *)
(* ---------------------------------------------------------------------- *)

\* the kinds of value a caller can pass for params.dest and params.file
JsValues == {"undefined", "emptyString", "number", "string"}

\* !v is false for v
Truthy(v) == v \in {"number", "string"}

\* typeof v
TypeOf(v) ==
  CASE v = "undefined" -> "undefined"
    [] v = "number" -> "number"
    [] OTHER -> "string"

\* what params itself can be
ParamsValues == {"undefined", "null", "string", "object"}

\* !params is false for p
ParamsTruthy(p) == p \in {"string", "object"}

\* typeof params
ParamsTypeOf(p) ==
  CASE p = "undefined" -> "undefined"
    [] p = "string" -> "string"
    [] OTHER -> "object"

\* what the path params.file names on disk
DiskKinds == {"missing", "directory", "file"}

(* ---------------------------------------------------------------------- *)
(* Paths: sequences of segments                                            *)
(* ---------------------------------------------------------------------- *)

\* path normalisation as path.join does it: a ".." segment removes the
\* segment before it, and stays when there is none to remove
RECURSIVE NormalizeFrom(_, _)
NormalizeFrom(acc, rest) ==
  IF rest = <<>> THEN acc
  ELSE IF Head(rest) = ".." /\ acc # <<>> /\ acc[Len(acc)] # ".."
       THEN NormalizeFrom(SubSeq(acc, 1, Len(acc) - 1), Tail(rest))
       ELSE NormalizeFrom(Append(acc, Head(rest)), Tail(rest))

Normalize(p) == NormalizeFrom(<<>>, p)

\* path.join(a, b)
PathJoin(a, b) == Normalize(a \o b)

\* path.dirname(p)
Dirname(p) == IF p = <<>> THEN <<>> ELSE SubSeq(p, 1, Len(p) - 1)

\* the destination directory of the extraction (params.dest, a valid one)
Dest == <<"dest">>

(* ---------------------------------------------------------------------- *)
(* Bit operations on non-negative integers                                 *)
(* ---------------------------------------------------------------------- *)

\* a & b
RECURSIVE BitAnd(_, _)
BitAnd(a, b) ==
  IF a = 0 \/ b = 0 THEN 0
  ELSE (a % 2) * (b % 2) + 2 * BitAnd(a \div 2, b \div 2)

(* ---------------------------------------------------------------------- *)
(* Entries of an archive                                                   *)
(*                                                                         *)
(* externalFileAttributes is an unsigned 32-bit field; it is kept as its   *)
(* two 16-bit halves, hi * 65536 + lo, because 32-bit values above 2^31    *)
(* are not representable as TLC integers.                                  *)
(* ---------------------------------------------------------------------- *)

Entry(name, hi, lo, vmb, content) ==
  [fileName |-> name, hi |-> hi, lo |-> lo, versionMadeBy |-> vmb, content |-> content]

\* regular file, packed on Unix with mode 0o100644
FileA == Entry(<<"a">>, 33188, 0, 788, <<>>)
\* regular file with no Unix mode at all, packed on MS-DOS
File0 == Entry(<<"b">>, 0, 0, 20, <<>>)
\* directory, packed on Unix with mode 0o040755 and the DOS directory bit
DirU == Entry(<<"d">>, 16877, 16, 788, <<>>)
\* directory marked only by the DOS attribute 16, packed on MS-DOS
DirW == Entry(<<"d">>, 0, 16, 20, <<>>)
\* symbolic link (mode 0o120777) whose content, the target, is ".."
LinkUp == Entry(<<"l">>, 41471, 0, 788, << <<"..">> >>)
\* symbolic link whose content arrives in two chunks: the target "d/a"
LinkIn == Entry(<<"l">>, 41471, 0, 788, << <<"d">>, <<"a">> >>)
\* regular file below the path of the links
Under == Entry(<<"l", "a">>, 33188, 0, 788, <<>>)
\* regular file whose name has a ".." segment
Trav == Entry(<<"..", "e">>, 33188, 0, 788, <<>>)

EntryPool == {FileA, File0, DirU, DirW, LinkUp, LinkIn, Under, Trav}

\* the sequences over S of length at most n
RECURSIVE SeqsUpTo(_, _)
SeqsUpTo(S, n) ==
  IF n = 0 THEN {<<>>}
  ELSE LET shorter == SeqsUpTo(S, n - 1)
       IN shorter \cup {Append(s, e) : s \in shorter, e \in S}

\* the archives yauzl.open can hand over
Archives == SeqsUpTo(EntryPool, MaxEntries)

\* entry.externalFileAttributes === 16
AttributesAre16(entry) == entry.hi = 0 /\ entry.lo = 16

\* let mode = (entry.externalFileAttributes >>> 16) & 0xFFFF
PackedMode(entry) == BitAnd(entry.hi, 65535)

\* const symlink = (mode & fs.constants.S_IFMT) === fs.constants.S_IFLNK
IsSymlink(entry) == BitAnd(PackedMode(entry), S_IFMT) = S_IFLNK

\* const madeBy = entry.versionMadeBy >> 8
MadeBy(entry) == entry.versionMadeBy \div 256

\* IsDir without the check of the DOS directory attribute
IsDirUnixOnly(entry) == BitAnd(PackedMode(entry), S_IFMT) = S_IFDIR

\* let isDir = ...; if (!isDir) isDir = (madeBy === 0 && externalFileAttributes === 16)
IsDir(entry) ==
  LET isDir == BitAnd(PackedMode(entry), S_IFMT) = S_IFDIR
  IN IF ~isDir THEN MadeBy(entry) = 0 /\ AttributesAre16(entry) ELSE isDir

\* FileMode without the default for a mode of zero
FileModeNoDefault(entry) == PackedMode(entry)

\* if (mode === 0) mode = 0o644
FileMode(entry) == IF PackedMode(entry) = 0 THEN DefaultMode ELSE PackedMode(entry)

\* if (symlink) ... else if (isDir) ... else ...
Branch(entry) ==
  IF IsSymlink(entry) THEN "symlink"
  ELSE IF IsDir(entry) THEN "directory"
  ELSE "file"

\* Concat with the chunks in the reverse order
RECURSIVE ConcatReversed(_)
ConcatReversed(chunks) ==
  IF chunks = <<>> THEN <<>> ELSE ConcatReversed(Tail(chunks)) \o Head(chunks)

\* Buffer.concat(chunks).toString('utf8')
RECURSIVE Concat(_)
Concat(chunks) == IF chunks = <<>> THEN <<>> ELSE Head(chunks) \o Concat(Tail(chunks))

\* a file name the archive reader refuses (yauzl's validateFileName, which
\* runs with the default decodeStrings of the open at line 107)
InvalidFileName(name) == \E i \in 1..Len(name) : name[i] = ".."

(* ---------------------------------------------------------------------- *)
(* Errors                                                                  *)
(* ---------------------------------------------------------------------- *)

ErrParams == "TypeError: Expected params to be an object"
ErrDest == "TypeError: Expected destination directory to be a non-empty string"
ErrFile == "TypeError: Expected zip file to be a non-empty string"
ErrMissing == "Error: The specified zip file does not exist"
ErrNotFile == "Error: The specified zip file is not a file"
\* new Error(`Invalid zip file: ${err.message || err}`)
InvalidZip(msg) == "Error: Invalid zip file: " \o msg

\* the message of the archive reader when it cannot parse the archive
OpenFailure == "end of central directory record signature not found"
\* errors of the environment, each handed to the code as is
ErrCallback == "error thrown by onEntry"
ErrOpenReadStream == "openReadStream error"
ErrClosed == "closed"
ErrRead == "read stream error"
ErrWrite == "write stream error"
ErrMkdirp == "mkdirp error"
ErrSymlink == "symlinkSync error"
ErrEntry == "invalid entry"
ErrBadFd == "EBADF"
ErrHeader == "invalid central directory file header signature"
None == "none"

(* ---------------------------------------------------------------------- *)
(* State                                                                   *)
(* ---------------------------------------------------------------------- *)

VARIABLES
  params,          \* the argument of extractZip and what params.file is on disk
  pc,              \* where the call is: "called", "opening", "open", "returned"
  promise,         \* the promise extractZip returns: "pending", "resolved", "rejected"
  error,           \* the value the promise was rejected with
  uncaught,        \* an exception thrown out of an event handler, caught by nobody
  isOpen,          \* zipfile: the handle is open (yauzl.open succeeded, no close yet)
  closeCalls,      \* zipfile: how often close() was called
  endListener,     \* zipfile: resolve is a listener of 'end'
  zipEntries,      \* zipfile: the entries of the central directory
  entriesRead,     \* zipfile: how many entries the reader has read
  readRequested,   \* zipfile: readEntry() was called and is not yet answered
  readEntryCalls,  \* how often the code has called readEntry()
  idx,             \* let idx
  total,           \* const total
  flight,          \* per entry of the archive: how far its handler has come
  calls,           \* the calls of params.onEntry, in order
  mutations,       \* the file system mutations performed, in order
  failures,        \* the failures the environment has reported, in order
  peer,            \* a second call of extractZip in the same process, while
                   \* the events of the first are being handled
  req              \* a call of buildRequestParams: its arguments and result

vars == <<params, pc, promise, error, uncaught, isOpen, closeCalls, endListener,
          zipEntries, entriesRead, readRequested, readEntryCalls, idx, total, flight,
          calls, mutations, failures, peer, req>>

zipVars == <<isOpen, closeCalls, endListener, zipEntries, entriesRead>>
logVars == <<calls, mutations, failures>>

\* an entry the reader has not emitted yet
Unread == [kind |-> None, phase |-> "unread", fullPath |-> <<>>, chunks |-> <<>>]

\* the calls of extractZip: a params that is no object has no properties, and
\* a file that is no string names nothing on disk
ParamsSpace ==
  {a \in [p : ParamsValues, dest : JsValues, file : JsValues, disk : DiskKinds,
          onEntry : {"undefined", "function"}] :
     /\ a.p # "object" =>
          a.dest = "undefined" /\ a.file = "undefined" /\ a.onEntry = "undefined"
     /\ a.file # "string" => a.disk = "missing"}

\* there is no second call of extractZip
NoPeer == [present |-> FALSE]

\* there is no call of buildRequestParams
NoRequest == [pc |-> "none"]

Init ==
  /\ peer = NoPeer
  /\ req = NoRequest
  /\ params \in ParamsSpace
  /\ pc = "called"
  /\ promise = "pending"
  /\ error = None
  /\ uncaught = None
  /\ isOpen = FALSE
  /\ closeCalls = 0
  /\ endListener = FALSE
  /\ zipEntries = <<>>
  /\ entriesRead = 0
  /\ readRequested = FALSE
  /\ readEntryCalls = 0
  /\ idx = 0
  /\ total = 0
  /\ flight = <<>>
  /\ calls = <<>>
  /\ mutations = <<>>
  /\ failures = <<>>

(* ---------------------------------------------------------------------- *)
(* Building blocks of the handlers                                         *)
(* ---------------------------------------------------------------------- *)

\* reject(err): settles the promise unless it is settled already
Reject(err) ==
  /\ promise' = IF promise = "pending" THEN "rejected" ELSE promise
  /\ error' = IF promise = "pending" THEN err ELSE error

\* resolve()
Resolve ==
  /\ promise' = IF promise = "pending" THEN "resolved" ELSE promise
  /\ error' = error

\* zipfile.readEntry()
ReadEntry ==
  /\ readRequested' = TRUE
  /\ readEntryCalls' = readEntryCalls + 1

\* const abort = err => { removeListener('end', resolve); close(); reject(err) }
Abort(err) ==
  /\ endListener' = FALSE
  /\ closeCalls' = closeCalls + 1
  /\ isOpen' = FALSE
  /\ Reject(err)

Mutation(n, op, path, mode, target) ==
  [n |-> n, op |-> op, path |-> path, mode |-> mode, target |-> target]

Failure(n, what, err) == [n |-> n, what |-> what, err |-> err]

(* ---------------------------------------------------------------------- *)
(* extractZip: the checks before the archive is opened                     *)
(* ---------------------------------------------------------------------- *)

\* Precondition with the check of file before the check of dest
PreconditionFileFirst(a) ==
  IF ~ParamsTruthy(a.p) \/ ParamsTypeOf(a.p) # "object" THEN ErrParams
  ELSE IF ~Truthy(a.file) \/ TypeOf(a.file) # "string" THEN ErrFile
  ELSE IF ~Truthy(a.dest) \/ TypeOf(a.dest) # "string" THEN ErrDest
  ELSE IF a.disk = "missing" THEN ErrMissing
  ELSE IF a.disk # "file" THEN ErrNotFile
  ELSE None

\* the error of the first violated precondition, None when all hold
Precondition(a) ==
  IF ~ParamsTruthy(a.p) \/ ParamsTypeOf(a.p) # "object" THEN ErrParams
  ELSE IF ~Truthy(a.dest) \/ TypeOf(a.dest) # "string" THEN ErrDest
  ELSE IF ~Truthy(a.file) \/ TypeOf(a.file) # "string" THEN ErrFile
  ELSE IF a.disk = "missing" THEN ErrMissing
  ELSE IF a.disk # "file" THEN ErrNotFile
  ELSE None

\* the call of extractZip up to yauzl.open; a throw of the async function
\* rejects the promise it returns
CheckParams ==
  /\ pc = "called"
  /\ IF Precondition(params) # None
     THEN /\ pc' = "returned"
          /\ promise' = "rejected"
          /\ error' = Precondition(params)
     ELSE /\ pc' = "opening"
          /\ UNCHANGED <<promise, error>>
  /\ UNCHANGED <<peer, req, params, uncaught, zipVars, readRequested, readEntryCalls, idx, total,
                 flight, logVars>>

(* ---------------------------------------------------------------------- *)
(* The callback of yauzl.open                                              *)
(* ---------------------------------------------------------------------- *)

OpenWith(archives) ==
  /\ pc = "opening"
  /\ \/ /\ Reject(InvalidZip(OpenFailure))
        /\ pc' = "returned"
        /\ UNCHANGED <<zipVars, readRequested, readEntryCalls, idx, total, flight>>
     \/ \E archive \in archives :
          /\ pc' = "open"
          /\ zipEntries' = archive
          /\ isOpen' = TRUE
          /\ idx' = 0
          /\ total' = Len(archive)
          /\ endListener' = TRUE
          /\ flight' = [n \in 1..Len(archive) |-> Unread]
          /\ ReadEntry
          /\ UNCHANGED <<promise, error, closeCalls, entriesRead>>
  /\ UNCHANGED <<peer, req, params, uncaught, logVars>>

Open == OpenWith(Archives)

(* ---------------------------------------------------------------------- *)
(* The 'entry' handler                                                     *)
(* ---------------------------------------------------------------------- *)

\* OnEntry counting the entry only after the call of params.onEntry
OnEntryCountsLate(n, entry, throws) ==
  /\ idx' = idx + 1
  /\ IF params.onEntry = "function"
     THEN calls' = Append(calls, <<entry.fileName, idx, total>>)
     ELSE calls' = calls
  /\ IF params.onEntry = "function" /\ throws
     THEN /\ Reject(ErrCallback)
          /\ failures' = Append(failures, Failure(n, "onEntry", ErrCallback))
          /\ flight' = [flight EXCEPT ![n].phase = "thrown"]
     ELSE /\ UNCHANGED <<promise, error, failures>>
          /\ flight' = [flight EXCEPT ![n] =
               [kind |-> Branch(entry), phase |-> "mkdirp",
                fullPath |-> PathJoin(Dest, entry.fileName), chunks |-> <<>>]]

\* the handler of 'entry' for the entry at position n of the archive;
\* throws: params.onEntry throws in this call
OnEntry(n, entry, throws) ==
  /\ idx' = idx + 1
  /\ IF params.onEntry = "function"
     THEN calls' = Append(calls, <<entry.fileName, idx + 1, total>>)
     ELSE calls' = calls
  /\ IF params.onEntry = "function" /\ throws
     THEN /\ Reject(ErrCallback)
          /\ failures' = Append(failures, Failure(n, "onEntry", ErrCallback))
          /\ flight' = [flight EXCEPT ![n].phase = "thrown"]
     ELSE /\ UNCHANGED <<promise, error, failures>>
          /\ flight' = [flight EXCEPT ![n] =
               [kind |-> Branch(entry), phase |-> "mkdirp",
                fullPath |-> PathJoin(Dest, entry.fileName), chunks |-> <<>>]]

(* ---------------------------------------------------------------------- *)
(* The archive reader answering readEntry()                                *)
(* ---------------------------------------------------------------------- *)

\* all entries are read: the reader closes the archive (autoClose) and emits
\* 'end', which calls resolve when it is still a listener (line 184)
ReaderEnd ==
  /\ readRequested /\ uncaught = None
  /\ entriesRead = Len(zipEntries)
  /\ readRequested' = FALSE
  /\ isOpen' = FALSE
  /\ endListener' = FALSE
  /\ IF endListener THEN Resolve ELSE UNCHANGED <<promise, error>>
  /\ UNCHANGED <<peer, req, params, pc, uncaught, closeCalls, zipEntries, entriesRead,
                 readEntryCalls, idx, total, flight, logVars>>

\* the reader cannot deliver the next entry: it closes the archive and emits
\* 'error', for which the code registers no listener, so the emit throws.
\* The entry is one the reader refuses, or the descriptor went with close(),
\* or the header of the entry in the central directory is corrupt (the
\* headers are parsed one by one as readEntry() asks for them, not at open).
ReaderError ==
  /\ readRequested /\ uncaught = None
  /\ entriesRead < Len(zipEntries)
  /\ \/ /\ InvalidFileName(zipEntries[entriesRead + 1].fileName)
        /\ uncaught' = ErrEntry
        /\ failures' = Append(failures, Failure(entriesRead + 1, "reader", ErrEntry))
     \/ /\ ~isOpen
        /\ uncaught' = ErrBadFd
        /\ failures' = Append(failures, Failure(entriesRead + 1, "reader", ErrBadFd))
     \/ /\ isOpen
        /\ uncaught' = ErrHeader
        /\ failures' = Append(failures, Failure(entriesRead + 1, "reader", ErrHeader))
  /\ readRequested' = FALSE
  /\ isOpen' = FALSE
  /\ UNCHANGED <<peer, req, params, pc, promise, error, closeCalls, endListener, zipEntries,
                 entriesRead, readEntryCalls, idx, total, flight, calls, mutations>>

\* the reader emits the next entry and the handler of 'entry' runs. After a
\* close() the reader still delivers entries as long as a read stream of the
\* archive holds the descriptor.
ReaderEntry ==
  /\ readRequested /\ uncaught = None
  /\ entriesRead < Len(zipEntries)
  /\ ~InvalidFileName(zipEntries[entriesRead + 1].fileName)
  /\ readRequested' = FALSE
  /\ entriesRead' = entriesRead + 1
  /\ \E throws \in BOOLEAN :
       OnEntry(entriesRead + 1, zipEntries[entriesRead + 1], throws)
  /\ UNCHANGED <<peer, req, params, pc, uncaught, isOpen, closeCalls, endListener, zipEntries,
                 readEntryCalls, total, mutations>>

(* ---------------------------------------------------------------------- *)
(* Materialization: the callbacks of mkdirp and openReadStream             *)
(* ---------------------------------------------------------------------- *)

\* MkdirpTarget making the parent directory in every branch
MkdirpTargetParent(n) == Dirname(flight[n].fullPath)

\* the directory the branch of entry n hands to fs.mkdirp
MkdirpTarget(n) ==
  IF flight[n].kind = "directory" THEN flight[n].fullPath ELSE Dirname(flight[n].fullPath)

\* the callback of fs.mkdirp, which takes no error argument: the directory
\* branch asks for the next entry, the other two open the read stream;
\* fails: mkdirp could not make the directory
MkdirpCallback(n, fails) ==
  /\ flight[n].phase = "mkdirp" /\ uncaught = None
  /\ IF ~fails
     THEN /\ mutations' = Append(mutations, Mutation(n, "mkdirp", MkdirpTarget(n), 0, <<>>))
          /\ failures' = failures
     ELSE /\ mutations' = mutations
          /\ failures' = Append(failures, Failure(n, "mkdirp", ErrMkdirp))
  /\ IF flight[n].kind = "directory"
     THEN /\ ReadEntry
          /\ flight' = [flight EXCEPT ![n].phase = "done"]
     ELSE /\ flight' = [flight EXCEPT ![n].phase = "openReadStream"]
          /\ UNCHANGED <<readRequested, readEntryCalls>>
  /\ UNCHANGED <<peer, req, params, pc, promise, error, uncaught, zipVars, idx, total, calls>>

Mkdirp == \E n \in DOMAIN flight, fails \in BOOLEAN : MkdirpCallback(n, fails)

\* the callback of zipfile.openReadStream in the symlink branch
SymlinkOpenReadStream(n, err) ==
  /\ flight[n].phase = "openReadStream" /\ flight[n].kind = "symlink" /\ uncaught = None
  /\ IF err # None
     THEN /\ Abort(err)
          /\ failures' = Append(failures, Failure(n, "openReadStream", err))
          /\ flight' = [flight EXCEPT ![n].phase = "aborted"]
     ELSE /\ flight' = [flight EXCEPT ![n].phase = "reading", ![n].chunks = <<>>]
          /\ UNCHANGED <<promise, error, isOpen, closeCalls, endListener, failures>>
  /\ UNCHANGED <<peer, req, params, pc, uncaught, zipEntries, entriesRead, readRequested,
                 readEntryCalls, idx, total, calls, mutations>>

\* FileOpenReadStream asking for the next entry as soon as the pipe is set up
FileOpenReadStreamEager(n, err) ==
  /\ flight[n].phase = "openReadStream" /\ flight[n].kind = "file" /\ uncaught = None
  /\ IF err # None
     THEN /\ Abort(err)
          /\ failures' = Append(failures, Failure(n, "openReadStream", err))
          /\ flight' = [flight EXCEPT ![n].phase = "aborted"]
          /\ mutations' = mutations
          /\ UNCHANGED <<readRequested, readEntryCalls>>
     ELSE /\ mutations' = Append(mutations,
               Mutation(n, "createWriteStream", flight[n].fullPath,
                        FileMode(zipEntries[n]), <<>>))
          /\ flight' = [flight EXCEPT ![n].phase = "piping"]
          /\ ReadEntry
          /\ UNCHANGED <<promise, error, isOpen, closeCalls, endListener, failures>>
  /\ UNCHANGED <<peer, req, params, pc, uncaught, zipEntries, entriesRead, idx, total, calls>>

\* the callback of zipfile.openReadStream in the regular file branch
FileOpenReadStream(n, err) ==
  /\ flight[n].phase = "openReadStream" /\ flight[n].kind = "file" /\ uncaught = None
  /\ IF err # None
     THEN /\ Abort(err)
          /\ failures' = Append(failures, Failure(n, "openReadStream", err))
          /\ flight' = [flight EXCEPT ![n].phase = "aborted"]
          /\ mutations' = mutations
     ELSE /\ mutations' = Append(mutations,
               Mutation(n, "createWriteStream", flight[n].fullPath,
                        FileMode(zipEntries[n]), <<>>))
          /\ flight' = [flight EXCEPT ![n].phase = "piping"]
          /\ UNCHANGED <<promise, error, isOpen, closeCalls, endListener, failures>>
  /\ UNCHANGED <<peer, req, params, pc, uncaught, zipEntries, entriesRead, readRequested,
                 readEntryCalls, idx, total, calls>>

\* what openReadStream can answer: "closed" once the archive is closed
OpenReadStreamErrors == IF isOpen THEN {None, ErrOpenReadStream} ELSE {ErrClosed}

OpenReadStream ==
  \E n \in DOMAIN flight, err \in OpenReadStreamErrors :
    SymlinkOpenReadStream(n, err) \/ FileOpenReadStream(n, err)

(* ---------------------------------------------------------------------- *)
(* Materialization of a symbolic link: the events of the read stream       *)
(* ---------------------------------------------------------------------- *)

\* readStream.on('data', chunk => chunks.push(chunk))
SymlinkData(n) ==
  /\ flight[n].phase = "reading" /\ uncaught = None
  /\ Len(flight[n].chunks) < Len(zipEntries[n].content)
  /\ flight' = [flight EXCEPT ![n].chunks = Append(@, zipEntries[n].content[Len(@) + 1])]
  /\ UNCHANGED <<peer, req, params, pc, promise, error, uncaught, zipVars, readRequested,
                 readEntryCalls, idx, total, logVars>>

\* readStream.on('error', abort)
SymlinkReadError(n) ==
  /\ flight[n].phase = "reading" /\ uncaught = None
  /\ Abort(ErrRead)
  /\ failures' = Append(failures, Failure(n, "readStream", ErrRead))
  /\ flight' = [flight EXCEPT ![n].phase = "aborted"]
  /\ UNCHANGED <<peer, req, params, pc, uncaught, zipEntries, entriesRead, readRequested,
                 readEntryCalls, idx, total, calls, mutations>>

\* something is already at the path: fs.symlinkSync cannot succeed
Occupied(path) == \E i \in 1..Len(mutations) : mutations[i].path = path

\* readStream.on('end', ...): the link is made and the next entry asked for;
\* a throw of fs.symlinkSync leaves the handler and is caught by nobody;
\* throws: fs.symlinkSync throws
SymlinkEnd(n, throws) ==
  /\ flight[n].phase = "reading" /\ uncaught = None
  /\ Len(flight[n].chunks) = Len(zipEntries[n].content)
  /\ IF ~throws
     THEN /\ ~Occupied(flight[n].fullPath)
          /\ mutations' = Append(mutations,
               Mutation(n, "symlink", flight[n].fullPath, 0, Concat(flight[n].chunks)))
          /\ ReadEntry
          /\ flight' = [flight EXCEPT ![n].phase = "done"]
          /\ UNCHANGED <<uncaught, failures>>
     ELSE /\ uncaught' = ErrSymlink
          /\ failures' = Append(failures, Failure(n, "symlink", ErrSymlink))
          /\ flight' = [flight EXCEPT ![n].phase = "thrown"]
          /\ UNCHANGED <<mutations, readRequested, readEntryCalls>>
  /\ UNCHANGED <<peer, req, params, pc, promise, error, zipVars, idx, total, calls>>

SymlinkReadEnd == \E n \in DOMAIN flight, throws \in BOOLEAN : SymlinkEnd(n, throws)

(* ---------------------------------------------------------------------- *)
(* Materialization of a regular file: the events of the two streams        *)
(* ---------------------------------------------------------------------- *)

\* writeStream.on('close', () => zipfile.readEntry()), after all was written
WriteClose(n) ==
  /\ flight[n].phase = "piping" /\ uncaught = None
  /\ ReadEntry
  /\ flight' = [flight EXCEPT ![n].phase = "done"]
  /\ UNCHANGED <<peer, req, params, pc, promise, error, uncaught, zipVars, idx, total, logVars>>

\* writeStream.on('error', abort)
WriteError(n) ==
  /\ flight[n].phase = "piping" /\ uncaught = None
  /\ Abort(ErrWrite)
  /\ failures' = Append(failures, Failure(n, "writeStream", ErrWrite))
  /\ flight' = [flight EXCEPT ![n].phase = "writeErrored"]
  /\ UNCHANGED <<peer, req, params, pc, uncaught, zipEntries, entriesRead, readRequested,
                 readEntryCalls, idx, total, calls, mutations>>

\* the 'close' a write stream emits after its 'error': the same listener
WriteCloseAfterError(n) ==
  /\ flight[n].phase = "writeErrored" /\ uncaught = None
  /\ ReadEntry
  /\ flight' = [flight EXCEPT ![n].phase = "closed"]
  /\ UNCHANGED <<peer, req, params, pc, promise, error, uncaught, zipVars, idx, total, logVars>>

\* an 'error' of the read stream that is piped: pipe forwards no error and
\* the branch registers no listener, so the emit throws
FileReadError(n) ==
  /\ flight[n].phase = "piping" /\ uncaught = None
  /\ uncaught' = ErrRead
  /\ failures' = Append(failures, Failure(n, "readStream", ErrRead))
  /\ flight' = [flight EXCEPT ![n].phase = "thrown"]
  /\ UNCHANGED <<peer, req, params, pc, promise, error, zipVars, readRequested, readEntryCalls,
                 idx, total, calls, mutations>>

(* ---------------------------------------------------------------------- *)
(* The specification                                                       *)
(* ---------------------------------------------------------------------- *)

\* what happens once the archive is open
Events ==
  \/ ReaderEnd
  \/ ReaderError
  \/ ReaderEntry
  \/ Mkdirp
  \/ OpenReadStream
  \/ \E n \in DOMAIN flight : SymlinkData(n)
  \/ \E n \in DOMAIN flight : SymlinkReadError(n)
  \/ SymlinkReadEnd
  \/ \E n \in DOMAIN flight : WriteClose(n)
  \/ \E n \in DOMAIN flight : WriteError(n)
  \/ \E n \in DOMAIN flight : WriteCloseAfterError(n)
  \/ \E n \in DOMAIN flight : FileReadError(n)

Next == CheckParams \/ Open \/ Events

Spec == Init /\ [][Next]_vars

(* ---------------------------------------------------------------------- *)
(* The same program on archives of one entry, over a wide range of the     *)
(* attributes that the classification reads                                *)
(* ---------------------------------------------------------------------- *)

\* upper halves of externalFileAttributes: no mode, permissions without a
\* type, and the file types of a Unix mode with and without permissions
WideHi == {0, 420, 8192, 16384, 16877, 24576, 32768, 33188, 40960, 41471, 49152, 57344}
\* lower halves: the DOS attributes none, directory, directory and read-only
WideLo == {0, 16, 17}
\* versionMadeBy: MS-DOS (high byte 0) in two versions, OS/2 HPFS (1), Unix (3)
WideVersionMadeBy == {20, 255, 276, 788}

WidePool ==
  {Entry(<<"w">>, hi, lo, vmb, << <<"t">> >>) :
     hi \in WideHi, lo \in WideLo, vmb \in WideVersionMadeBy}

WideArchives == {<<e>> : e \in WidePool \cup {Trav}}

OpenClassify == OpenWith(WideArchives)

NextClassify == CheckParams \/ OpenClassify \/ Events

SpecClassify == Init /\ [][NextClassify]_vars

(* ---------------------------------------------------------------------- *)
(* Two calls of extractZip in one process, on two archives                 *)
(* ---------------------------------------------------------------------- *)

\* Everything a call of extractZip has is made by that call: the promise and
\* its executor (line 106), zipfile (the argument of the callback at line
\* 107), idx, total and abort (lines 112-118), and the streams of its
\* handlers. The module itself has no variable that extractZip writes. The
\* events of the second call are handled between those of the first, each
\* handler running to its end: the variables are the call whose event is
\* being handled, and peer holds the other call until it gets its turn.
Context ==
  [params |-> params,
   pc |-> pc,
   promise |-> promise,
   error |-> error,
   uncaught |-> uncaught,
   isOpen |-> isOpen,
   closeCalls |-> closeCalls,
   endListener |-> endListener,
   zipEntries |-> zipEntries,
   entriesRead |-> entriesRead,
   readRequested |-> readRequested,
   readEntryCalls |-> readEntryCalls,
   idx |-> idx,
   total |-> total,
   flight |-> flight,
   calls |-> calls,
   mutations |-> mutations,
   failures |-> failures]

\* a call of extractZip that has just been made, with the argument a
Fresh(a) ==
  [params |-> a,
   pc |-> "called",
   promise |-> "pending",
   error |-> None,
   uncaught |-> None,
   isOpen |-> FALSE,
   closeCalls |-> 0,
   endListener |-> FALSE,
   zipEntries |-> <<>>,
   entriesRead |-> 0,
   readRequested |-> FALSE,
   readEntryCalls |-> 0,
   idx |-> 0,
   total |-> 0,
   flight |-> <<>>,
   calls |-> <<>>,
   mutations |-> <<>>,
   failures |-> <<>>]

\* the handler that runs next finds all of its call's state but idx
RestoreButIdx(c) ==
  /\ params' = c.params
  /\ pc' = c.pc
  /\ promise' = c.promise
  /\ error' = c.error
  /\ uncaught' = c.uncaught
  /\ isOpen' = c.isOpen
  /\ closeCalls' = c.closeCalls
  /\ endListener' = c.endListener
  /\ zipEntries' = c.zipEntries
  /\ entriesRead' = c.entriesRead
  /\ readRequested' = c.readRequested
  /\ readEntryCalls' = c.readEntryCalls
  /\ total' = c.total
  /\ flight' = c.flight
  /\ calls' = c.calls
  /\ mutations' = c.mutations
  /\ failures' = c.failures

\* Switch with idx a variable of the module, shared by the two calls
SwitchSharedIdx ==
  /\ peer.present
  /\ peer' = [present |-> TRUE, fg |-> 3 - peer.fg, ctx |-> Context]
  /\ RestoreButIdx(peer.ctx)
  /\ idx' = idx
  /\ req' = req

\* the next event is one of the other call
Switch ==
  /\ peer.present
  /\ peer' = [present |-> TRUE, fg |-> 3 - peer.fg, ctx |-> Context]
  /\ RestoreButIdx(peer.ctx)
  /\ idx' = peer.ctx.idx
  /\ req' = req

\* the archives of the two calls: the first call extracts one of two
\* entries, the second one of a single entry or of three
ConcurrentArchives ==
  << {<<DirW, FileA>>, <<FileA, LinkIn>>},
     {<<LinkIn>>, <<File0, DirU, Under>>} >>

\* both calls pass params.onEntry; the file of a call may be missing
ConcurrentParams ==
  {a \in ParamsSpace :
     /\ a.p = "object" /\ a.dest = "string" /\ a.file = "string"
     /\ a.disk \in {"file", "missing"} /\ a.onEntry = "function"}

InitConcurrent ==
  /\ req = NoRequest
  /\ params \in ConcurrentParams
  /\ peer \in {[present |-> TRUE, fg |-> 1, ctx |-> Fresh(a)] : a \in ConcurrentParams}
  /\ pc = "called"
  /\ promise = "pending"
  /\ error = None
  /\ uncaught = None
  /\ isOpen = FALSE
  /\ closeCalls = 0
  /\ endListener = FALSE
  /\ zipEntries = <<>>
  /\ entriesRead = 0
  /\ readRequested = FALSE
  /\ readEntryCalls = 0
  /\ idx = 0
  /\ total = 0
  /\ flight = <<>>
  /\ calls = <<>>
  /\ mutations = <<>>
  /\ failures = <<>>

OpenConcurrent == OpenWith(ConcurrentArchives[peer.fg])

NextConcurrent == CheckParams \/ OpenConcurrent \/ Events \/ Switch

SpecConcurrent == InitConcurrent /\ [][NextConcurrent]_vars

(* ---------------------------------------------------------------------- *)
(* buildRequestParams                                                      *)
(* ---------------------------------------------------------------------- *)

\* JavaScript values: a type and what tells the values of the type apart
\* (the characters of a string, the name of an object, the path a buffer
\* was read from)
Undefined == [t |-> "undefined", v |-> <<>>]
Null == [t |-> "null", v |-> <<>>]
False == [t |-> "boolean", v |-> <<"false">>]
True == [t |-> "boolean", v |-> <<"true">>]
Str(chars) == [t |-> "string", v |-> chars]
Obj(name) == [t |-> "object", v |-> <<name>>]
Buffer(path) == [t |-> "buffer", v |-> path.v]

\* !x is false for x
IsTruthy(x) ==
  /\ x.t \notin {"undefined", "null"}
  /\ x # False
  /\ x # Str(<<>>)

\* /^https/.test(url)
TestHttps(url) ==
  /\ url.t = "string"
  /\ Len(url.v) >= 5
  /\ SubSeq(url.v, 1, 5) = <<"h", "t", "t", "p", "s">>

\* Object.assign(target, source) throws a TypeError when target is
\* undefined or null; a primitive target is wrapped, and the wrapper with
\* the properties of source is the value of the call, which line 38 drops
AssignThrows(target) == target.t \in {"undefined", "null"}

TypeError == "TypeError: Cannot convert undefined or null to object"

\* the paths of the network options and which of them isFile() finds
PemFile == Str(<<"c", ".", "p", "e", "m">>)
NoFile == Str(<<"n", "o">>)
IsFile(path) == path = PemFile

HttpUrl == Str(<<"h", "t", "t", "p", ":", "/", "/", "h">>)
HttpsUrl == Str(<<"h", "t", "t", "p", "s", ":", "/", "/", "h">>)
OtherUrl == Str(<<"x", "h", "t", "t", "p", "s">>)

\* the params a caller passes
RequestParams ==
  [agentOptions : {Undefined, Null, False, Obj("callerAgent")},
   ca : {Undefined, Str(<<"c", "a">>)},
   cert : {Undefined},
   key : {Undefined},
   proxy : {Undefined, Str(<<>>), Str(<<"p">>)},
   url : {Undefined, HttpUrl, HttpsUrl, OtherUrl},
   passphrase : {Undefined, Str(<<"w">>)},
   strictSSL : {Undefined, False, True}]

\* options.network
NetworkOptions ==
  [agentOptions : {Undefined, Obj("networkAgent")},
   caFile : {Undefined, NoFile, PemFile},
   certFile : {Undefined, PemFile},
   keyFile : {NoFile, PemFile},
   httpProxy : {Undefined, Str(<<"h", "p">>)},
   httpsProxy : {Undefined, Str(<<"s", "p">>)},
   passphrase : {Undefined, Str(<<"s">>)},
   strictSSL : {Undefined, False}]

\* a || b
Or(a, b) == IF IsTruthy(a) THEN a ELSE b

\* lines 41-67 of buildRequestParams, statement by statement
MixIn(given, network) ==
  LET p1 == IF ~IsTruthy(given.ca) /\ IsTruthy(network.caFile) /\ IsFile(network.caFile)
            THEN [given EXCEPT !.ca = Buffer(network.caFile)] ELSE given
      p2 == IF ~IsTruthy(p1.cert) /\ IsTruthy(network.certFile) /\ IsFile(network.certFile)
            THEN [p1 EXCEPT !.cert = Buffer(network.certFile)] ELSE p1
      p3 == IF /\ ~IsTruthy(p2.proxy) /\ IsTruthy(p2.url)
               /\ (IsTruthy(network.httpsProxy) \/ IsTruthy(network.httpProxy))
            THEN IF TestHttps(p2.url)
                 THEN [p2 EXCEPT !.proxy = Or(network.httpsProxy, network.httpProxy)]
                 ELSE [p2 EXCEPT !.proxy = Or(network.httpProxy, network.httpsProxy)]
            ELSE p2
      p4 == IF ~IsTruthy(p3.key) /\ IsTruthy(network.keyFile) /\ IsFile(network.keyFile)
            THEN [p3 EXCEPT !.key = Buffer(network.keyFile)] ELSE p3
      p5 == IF ~IsTruthy(p4.passphrase) /\ IsTruthy(network.passphrase)
            THEN [p4 EXCEPT !.passphrase = network.passphrase] ELSE p4
      p6 == IF p5.strictSSL = Undefined /\ network.strictSSL # Undefined
            THEN [p5 EXCEPT !.strictSSL = network.strictSSL] ELSE p5
  IN p6

\* buildRequestParams(params) with options.network = network: how the call
\* ends, and params as the call leaves it
BuildRequestParams(given, network) ==
  IF /\ ~IsTruthy(given.agentOptions) /\ IsTruthy(network.agentOptions)
     /\ AssignThrows(given.agentOptions)
  THEN [pc |-> "threw", thrown |-> TypeError, params |-> given]
  ELSE [pc |-> "returned", thrown |-> None, params |-> MixIn(given, network)]

\* the program is about to call buildRequestParams; extractZip is not called
InitRequest ==
  /\ req \in [pc : {"called"}, thrown : {None}, params : RequestParams,
              network : NetworkOptions, given : {Undefined}]
  /\ peer = NoPeer
  /\ params = [p |-> "undefined", dest |-> "undefined", file |-> "undefined",
               disk |-> "missing", onEntry |-> "undefined"]
  /\ pc = None
  /\ promise = "pending"
  /\ error = None
  /\ uncaught = None
  /\ isOpen = FALSE
  /\ closeCalls = 0
  /\ endListener = FALSE
  /\ zipEntries = <<>>
  /\ entriesRead = 0
  /\ readRequested = FALSE
  /\ readEntryCalls = 0
  /\ idx = 0
  /\ total = 0
  /\ flight = <<>>
  /\ calls = <<>>
  /\ mutations = <<>>
  /\ failures = <<>>

\* the call: req.given keeps the params as they were passed
CallBuildRequestParams ==
  /\ req.pc = "called"
  /\ LET out == BuildRequestParams(req.params, req.network)
     IN req' = [pc |-> out.pc, thrown |-> out.thrown, params |-> out.params,
                network |-> req.network, given |-> req.params]
  /\ UNCHANGED <<peer, params, pc, promise, error, uncaught, zipVars, readRequested,
                 readEntryCalls, idx, total, flight, logVars>>

NextRequest == CallBuildRequestParams

SpecRequest == InitRequest /\ [][NextRequest]_vars

(* ---------------------------------------------------------------------- *)
(* Notions the claims use                                                  *)
(* ---------------------------------------------------------------------- *)

Positions == DOMAIN flight

\* the handler of entry n still waits for a callback or a stream event
InFlight(n) ==
  flight[n].phase \in {"mkdirp", "openReadStream", "reading", "piping", "writeErrored"}

\* the completion event of entry n has happened: mkdirp has called back (a
\* directory), the link was made at the end of the read stream (a symbolic
\* link), the write stream has emitted 'close' (a regular file)
Completed(n) == flight[n].phase \in {"done", "closed"}

FailuresOf(n) == {i \in 1..Len(failures) : failures[i].n = n}

\* entry n is on disk as the archive has it
Materialized(n) == flight[n].phase = "done" /\ FailuresOf(n) = {}

MutationsOf(n) == {i \in 1..Len(mutations) : mutations[i].n = n}

(* ---------------------------------------------------------------------- *)
(* C1                                                                      *)
(* ---------------------------------------------------------------------- *)

\* C1: entries are materialized one at a time: at most one entry is in
\* flight, no mutation of the file system is made for an entry before the
\* completion event of every earlier entry, and readEntry was called once
\* when the archive was opened and once per completed entry, no more.
C1_OneEntryAtATime ==
  /\ Cardinality({n \in Positions : InFlight(n)}) <= 1
  /\ \A i \in 1..Len(mutations) :
       \A j \in 1..(mutations[i].n - 1) : Completed(j)
  /\ \A n \in Positions :
       flight[n].phase # "unread" => \A j \in 1..(n - 1) : Completed(j)
  /\ pc = "open" =>
       readEntryCalls = 1 + Cardinality({n \in Positions : Completed(n)})

\* a file of entry 2 is being written after the write stream of entry 1,
\* a regular file too, has closed
C1_Witness ==
  /\ Len(flight) >= 2
  /\ flight[1].kind = "file" /\ flight[1].phase = "done"
  /\ flight[2].kind = "file" /\ flight[2].phase = "piping"
  /\ \E i \in 1..Len(mutations) :
       mutations[i].n = 2 /\ mutations[i].op = "createWriteStream"

(* ---------------------------------------------------------------------- *)
(* C2                                                                      *)
(* ---------------------------------------------------------------------- *)

\* C2: once the archive was opened and the promise is settled, the handle
\* is closed, and the code has called close() at most once.
C2_ClosedExactlyOnce ==
  (pc = "open" /\ promise # "pending") =>
    (~isOpen /\ closeCalls <= 1)

(* ---------------------------------------------------------------------- *)
(* C3                                                                      *)
(* ---------------------------------------------------------------------- *)

\* params.onEntry threw in the call for entry k
CallbackThrewAt(k) ==
  \E i \in 1..Len(failures) : failures[i].n = k /\ failures[i].what = "onEntry"

\* C3: when onEntry has thrown for entry k, the promise is rejected with
\* the thrown error, every entry before k is materialized, nothing was done
\* to the file system for entry k or a later one, and onEntry was not
\* called again.
C3_CallbackThrowStops ==
  \A k \in Positions :
    CallbackThrewAt(k) =>
      /\ promise = "rejected" /\ error = ErrCallback
      /\ \A j \in 1..(k - 1) : Materialized(j)
      /\ \A i \in 1..Len(mutations) : mutations[i].n < k
      /\ Len(calls) = k

(* ---------------------------------------------------------------------- *)
(* C4                                                                      *)
(* ---------------------------------------------------------------------- *)

\* C4: once the promise is rejected, readEntry is not called again.
C4_NoAdvanceAfterError ==
  [][promise = "rejected" => readEntryCalls' = readEntryCalls]_vars

(* ---------------------------------------------------------------------- *)
(* C5                                                                      *)
(* ---------------------------------------------------------------------- *)

\* C5: with an onEntry function, the i-th call is for the i-th entry of the
\* archive, with index i and the entry count of the archive as total; every
\* mutation of the file system for an entry comes after the call for that
\* entry; and an extraction that resolves with no failure reported has
\* called onEntry once per entry.
C5_OnEntrySequence ==
  params.onEntry = "function" =>
    /\ \A i \in 1..Len(calls) :
         calls[i] = <<zipEntries[i].fileName, i, Len(zipEntries)>>
    /\ \A i \in 1..Len(mutations) : mutations[i].n <= Len(calls)
    /\ (promise = "resolved" /\ failures = <<>>) => Len(calls) = Len(zipEntries)

\* an archive of three entries was extracted with no failure and three calls
C5_Witness ==
  /\ params.onEntry = "function"
  /\ promise = "resolved" /\ failures = <<>>
  /\ Len(zipEntries) = 3 /\ Len(calls) = 3
  /\ \A n \in 1..3 : MutationsOf(n) # {}

(* ---------------------------------------------------------------------- *)
(* C6                                                                      *)
(* ---------------------------------------------------------------------- *)

\* C6: a failed mkdirp or a failed symlinkSync of an entry rejects the
\* promise with that error, and no later entry is emitted.
C6_MaterializationFailureIsFatal ==
  \A i \in 1..Len(failures) :
    failures[i].what \in {"mkdirp", "symlink"} =>
      /\ promise = "rejected" /\ error = failures[i].err
      /\ entriesRead = failures[i].n

(* ---------------------------------------------------------------------- *)
(* C7                                                                      *)
(* ---------------------------------------------------------------------- *)

\* C7: after an 'error' of a read stream or of a write stream the promise
\* is rejected with that error and the archive is closed.
C7_StreamErrorAborts ==
  \A i \in 1..Len(failures) :
    failures[i].what \in {"readStream", "writeStream"} =>
      /\ promise = "rejected" /\ error = failures[i].err
      /\ ~isOpen

(* ---------------------------------------------------------------------- *)
(* C8                                                                      *)
(* ---------------------------------------------------------------------- *)

\* the preconditions, in the order the claim gives them
PreconditionsViolated ==
  << params.p # "object",
     params.dest # "string",
     params.file # "string",
     params.disk = "missing",
     params.disk # "file" >>

PreconditionErrors == <<ErrParams, ErrDest, ErrFile, ErrMissing, ErrNotFile>>

\* C8: when preconditions are violated, the call is rejected with the error
\* of the first violated one in the order params, dest, file, exists, is a
\* file, the five errors being distinct; and then no archive is opened,
\* onEntry is not called and nothing is done to the file system. With none
\* violated the call goes on to open the archive.
C8_PreconditionsInOrder ==
  /\ \A i, j \in 1..5 : i # j => PreconditionErrors[i] # PreconditionErrors[j]
  /\ pc # "called" =>
       IF \E i \in 1..5 : PreconditionsViolated[i]
       THEN LET first == CHOOSE i \in 1..5 :
                           /\ PreconditionsViolated[i]
                           /\ \A j \in 1..(i - 1) : ~PreconditionsViolated[j]
            IN /\ pc = "returned" /\ promise = "rejected"
               /\ error = PreconditionErrors[first]
               /\ ~isOpen /\ zipEntries = <<>> /\ readEntryCalls = 0
               /\ calls = <<>> /\ mutations = <<>>
       ELSE pc \in {"opening", "open"} \/ error = InvalidZip(OpenFailure)

\* dest and file are both bad, and the error is the one of dest
C8_Witness ==
  /\ pc = "returned"
  /\ params.p = "object" /\ params.dest = "emptyString" /\ params.file = "number"
  /\ error = ErrDest

(* ---------------------------------------------------------------------- *)
(* C9                                                                      *)
(* ---------------------------------------------------------------------- *)

\* the symbolic links made by the first k mutations
LinksMade(k) ==
  {mutations[i] : i \in {j \in 1..k : mutations[j].op = "symlink"}}

\* where the operating system finds path: a symbolic link on the way to
\* the last segment is replaced by its target, taken from the directory of
\* the link
RECURSIVE RealPath(_, _, _, _)
RealPath(done, rest, links, fuel) ==
  IF rest = <<>> THEN done
  ELSE LET here == Append(done, Head(rest))
       IN IF Tail(rest) # <<>> /\ fuel > 0 /\ \E l \in links : l.path = here
          THEN LET l == CHOOSE l \in links : l.path = here
               IN RealPath(<<>>, Normalize(done \o l.target \o Tail(rest)), links, fuel - 1)
          ELSE RealPath(here, Tail(rest), links, fuel)

\* path is dest or below it
InsideDest(path) ==
  /\ Len(path) >= Len(Dest)
  /\ SubSeq(path, 1, Len(Dest)) = Dest
  /\ \A i \in 1..Len(path) : path[i] # ".."

\* C9: every path that was created, linked or written is inside dest, by
\* its name and by where the links made so far lead.
C9_NoEscape ==
  \A i \in 1..Len(mutations) :
    /\ InsideDest(mutations[i].path)
    /\ InsideDest(RealPath(<<>>, mutations[i].path, LinksMade(i - 1), MaxEntries))

(* ---------------------------------------------------------------------- *)
(* C10                                                                     *)
(* ---------------------------------------------------------------------- *)

\* the file type bits of the mode packed in the upper half of the attributes
TypeBits(entry) == ((entry.hi % 65536) \div 4096) * 4096

\* the classification as the claim states it
ReferenceKind(entry) ==
  IF TypeBits(entry) = 40960 THEN "symlink"
  ELSE IF \/ TypeBits(entry) = 16384
          \/ (entry.versionMadeBy \div 256 = 0 /\ <<entry.hi, entry.lo>> = <<0, 16>>)
       THEN "directory"
       ELSE "file"

\* C10: the branch the handler takes for an entry is the kind the
\* classification of the claim gives, one of the three kinds.
C10_BranchIsClassification ==
  \A n \in Positions :
    flight[n].phase \notin {"unread", "thrown"} =>
      /\ flight[n].kind \in {"symlink", "directory", "file"}
      /\ flight[n].kind = ReferenceKind(zipEntries[n])

\* an entry marked a directory only by the DOS attribute 16, packed on
\* MS-DOS, took the directory branch and its mkdirp has called back
C10_Witness ==
  \E n \in Positions :
    /\ zipEntries[n].hi = 0 /\ zipEntries[n].lo = 16
    /\ zipEntries[n].versionMadeBy \div 256 = 0
    /\ flight[n].kind = "directory" /\ flight[n].phase = "done"

(* ---------------------------------------------------------------------- *)
(* C11                                                                     *)
(* ---------------------------------------------------------------------- *)

\* the handler of entry n has got past the call of onEntry
Handled(n) == flight[n].kind # None

\* the reader was asked for the entry after n, or has read past n
AdvancedPast(n) == entriesRead > n \/ (entriesRead = n /\ readRequested)

\* C11: an entry that the classification makes a directory only waits for
\* mkdirp and is then done: no stream is opened for it and nothing but a
\* mkdirp of dest joined with its name is done for it; the reader is not
\* asked to advance before mkdirp has called back, and a mkdirp that did not
\* fail has made the directory.
C11_DirectoryBranch ==
  \A n \in Positions :
    (ReferenceKind(zipEntries[n]) = "directory" /\ Handled(n)) =>
      /\ flight[n].phase \in {"mkdirp", "done"}
      /\ \A i \in MutationsOf(n) :
           /\ mutations[i].op = "mkdirp"
           /\ mutations[i].path = Dest \o zipEntries[n].fileName
      /\ flight[n].phase = "mkdirp" => (~AdvancedPast(n) /\ MutationsOf(n) = {})
      /\ (flight[n].phase = "done" /\ FailuresOf(n) = {}) =>
           Cardinality(MutationsOf(n)) = 1

\* a directory marked by the DOS attribute was made at dest/d, and the
\* reader was asked for the next entry
C11_Witness ==
  \E n \in Positions :
    /\ zipEntries[n] = DirW
    /\ flight[n].phase = "done"
    /\ AdvancedPast(n)
    /\ \E i \in MutationsOf(n) : mutations[i].path = <<"dest", "d">>

(* ---------------------------------------------------------------------- *)
(* C12                                                                     *)
(* ---------------------------------------------------------------------- *)

\* the permission mode the claim gives for an entry
ReferenceMode(entry) ==
  IF entry.hi % 65536 # 0 THEN entry.hi % 65536 ELSE 420

\* C12: a regular file whose write stream was created has one
\* createWriteStream, at its path, with the packed mode of the entry when
\* that is not zero and with 0o644 when it is.
C12_FileMode ==
  \A n \in Positions :
    (ReferenceKind(zipEntries[n]) = "file"
       /\ flight[n].phase \in {"piping", "done", "writeErrored", "closed"}) =>
      /\ Cardinality({i \in MutationsOf(n) : mutations[i].op = "createWriteStream"}) = 1
      /\ \A i \in MutationsOf(n) :
           mutations[i].op = "createWriteStream" =>
             /\ mutations[i].mode = ReferenceMode(zipEntries[n])
             /\ mutations[i].path = Dest \o zipEntries[n].fileName

\* the file of an entry with no mode was created with 0o644, and written
C12_Witness ==
  \E n \in Positions :
    /\ zipEntries[n].hi = 0
    /\ flight[n].phase = "done"
    /\ \E i \in MutationsOf(n) :
         mutations[i].op = "createWriteStream" /\ mutations[i].mode = 420

(* ---------------------------------------------------------------------- *)
(* C13                                                                     *)
(* ---------------------------------------------------------------------- *)

\* the chunks of a content one after the other, first chunk first
RECURSIVE InArrivalOrder(_, _)
InArrivalOrder(sofar, content) ==
  IF content = <<>> THEN sofar
  ELSE InArrivalOrder(sofar \o content[1], SubSeq(content, 2, Len(content)))

\* C13: the reader is asked to advance past a symbolic link only when its
\* handler is done: all chunks of the content were received, the stream
\* has ended, and one link was made at dest joined with the name, its
\* target the chunks in arrival order. In every other state of the handler
\* (still reading, aborted, thrown) the reader has not been asked.
C13_SymlinkDrained ==
  \A n \in Positions :
    (ReferenceKind(zipEntries[n]) = "symlink" /\ flight[n].phase # "unread") =>
      /\ flight[n].phase # "done" => ~AdvancedPast(n)
      /\ flight[n].phase = "aborted" => (promise = "rejected" /\ ~isOpen)
      /\ \A i \in MutationsOf(n) :
           mutations[i].op = "symlink" => flight[n].phase = "done"
      /\ flight[n].phase = "done" =>
           /\ flight[n].chunks = zipEntries[n].content
           /\ \E i \in MutationsOf(n) :
                /\ mutations[i].op = "symlink"
                /\ mutations[i].path = Dest \o zipEntries[n].fileName
                /\ mutations[i].target = InArrivalOrder(<<>>, zipEntries[n].content)

\* the link whose content came in the chunks "d" and "a" was made with the
\* target d/a
C13_Witness ==
  \E n \in Positions :
    /\ zipEntries[n] = LinkIn
    /\ flight[n].phase = "done"
    /\ \E i \in MutationsOf(n) :
         mutations[i].op = "symlink" /\ mutations[i].target = <<"d", "a">>

(* ---------------------------------------------------------------------- *)
(* C14                                                                     *)
(* ---------------------------------------------------------------------- *)

\* C14: the promise is resolved only on exhaustion: when it is resolved the
\* reader has emitted every entry of the archive, every entry is
\* materialized (its completion event has happened and nothing failed for
\* it), and the environment has reported no failure at all.
C14_ResolvesOnlyOnExhaustion ==
  promise = "resolved" =>
    /\ entriesRead = Len(zipEntries)
    /\ idx = total
    /\ \A n \in Positions : Materialized(n)
    /\ failures = <<>>

(* ---------------------------------------------------------------------- *)
(* C15                                                                     *)
(* ---------------------------------------------------------------------- *)

\* the decoder has found the archive invalid: yauzl.open has failed, or the
\* reader has met a corrupt entry header
OpenFailed == pc = "returned" /\ Precondition(params) = None

CorruptHeaders == {i \in 1..Len(failures) : failures[i].err = ErrHeader}

\* C15: an invalid archive fails the extraction with "Invalid zip file"
\* carrying the message of the decoder: when yauzl.open has failed the
\* promise is rejected with that error, no entry was processed and
\* params.onEntry was not called; when the reader has met a corrupt entry
\* header the promise is rejected with that error as well.
C15_InvalidArchive ==
  /\ OpenFailed =>
       /\ promise = "rejected" /\ error = InvalidZip(OpenFailure)
       /\ calls = <<>> /\ mutations = <<>> /\ idx = 0 /\ entriesRead = 0
  /\ \A i \in CorruptHeaders :
       promise = "rejected" /\ error = InvalidZip(failures[i].err)

(* ---------------------------------------------------------------------- *)
(* C16                                                                     *)
(* ---------------------------------------------------------------------- *)

AbortingFailures == {"openReadStream", "readStream", "writeStream"}

\* the call c, the k-th of the two, has seen nothing of the other call: its
\* archive is one of its own, idx counts the entries its reader has emitted
\* and total is the length of its archive, params.onEntry was called with
\* the names of its archive, the indices 1, 2, ... and that total, and its
\* archive was closed by abort and its promise rejected only after a
\* failure of its own
Undisturbed(c, k) ==
  /\ c.zipEntries = <<>> \/ c.zipEntries \in ConcurrentArchives[k]
  /\ c.pc = "open" => c.total = Len(c.zipEntries)
  /\ c.idx = c.entriesRead
  /\ Len(c.calls) = c.idx
  /\ \A i \in 1..Len(c.calls) :
       c.calls[i] = <<c.zipEntries[i].fileName, i, Len(c.zipEntries)>>
  /\ c.closeCalls > 0 =>
       \E i \in 1..Len(c.failures) : c.failures[i].what \in AbortingFailures
  /\ c.promise = "rejected" => (c.pc = "returned" \/ c.failures # <<>>)
  /\ c.promise = "resolved" => c.entriesRead = Len(c.zipEntries)
  /\ (c.pc = "open" /\ c.failures = <<>>) =>
       (c.isOpen \/ c.entriesRead = Len(c.zipEntries))

\* a step in which a handler of one call runs leaves the other call as it
\* is, and a change of turn changes neither call
OtherCallUntouched ==
  /\ peer'.fg = peer.fg => peer' = peer
  /\ peer'.fg # peer.fg => (peer'.ctx = Context /\ Context' = peer.ctx)

\* C16: two calls on two archives whose events interleave do not interfere:
\* each call counts its own entries against its own total, so its calls of
\* params.onEntry are numbered 1..total of its own archive, and an abort of
\* one call neither closes the archive of the other nor settles its promise.
C16_NoInterference ==
  /\ [](Undisturbed(Context, peer.fg) /\ Undisturbed(peer.ctx, 3 - peer.fg))
  /\ [][OtherCallUntouched]_vars

\* the first call was aborted after its first entry, by an error of the
\* write stream; the second call has since extracted its three entries
\* with the indices 1, 2, 3 of 3 and is resolved
C16_Witness ==
  /\ peer.present /\ peer.fg = 2
  /\ peer.ctx.promise = "rejected" /\ peer.ctx.error = ErrWrite
  /\ peer.ctx.closeCalls = 1 /\ peer.ctx.idx = 1 /\ peer.ctx.total = 2
  /\ promise = "resolved" /\ closeCalls = 0 /\ failures = <<>>
  /\ calls = << <<File0.fileName, 1, 3>>, <<DirU.fileName, 2, 3>>,
               <<Under.fileName, 3, 3>> >>

(* ---------------------------------------------------------------------- *)
(* C17                                                                     *)
(* ---------------------------------------------------------------------- *)

\* no callback and no event of the archive, the file system or a stream is
\* pending: nothing more will run for this call
Quiescent == ~ENABLED Next

\* the failures so far are those of mkdirp, openReadStream, the read and
\* write streams, symlinkSync and params.onEntry, none of the archive reader
NoReaderFailure == \A i \in 1..Len(failures) : failures[i].what # "reader"

\* C17: the extraction is never stuck: in no reachable state, whatever
\* errors mkdirp, openReadStream, the streams, symlinkSync and onEntry have
\* produced, is the promise still pending with nothing left to happen, so
\* that under fair delivery of the events every call settles.
C17_NeverStuck == (Quiescent /\ NoReaderFailure) => promise # "pending"

(* ---------------------------------------------------------------------- *)
(* C18, C19                                                                *)
(* ---------------------------------------------------------------------- *)

\* the call of buildRequestParams is over
RequestDone == req.pc \in {"returned", "threw"}

\* the proxy the network options give for the url
NetworkProxy(url, network) ==
  IF TestHttps(url) THEN Or(network.httpsProxy, network.httpProxy)
  ELSE Or(network.httpProxy, network.httpsProxy)

ProxyConfigured(network) ==
  IsTruthy(network.httpsProxy) \/ IsTruthy(network.httpProxy)

\* C18: buildRequestParams returns, raising nothing, and the params it
\* returns have the value of the network options for each of agentOptions,
\* proxy (for a request with a url), passphrase and strictSSL that the
\* caller did not supply and the network options define.
C18_MixesNetworkOptions ==
  RequestDone =>
    /\ req.pc = "returned" /\ req.thrown = None
    /\ (~IsTruthy(req.given.agentOptions) /\ IsTruthy(req.network.agentOptions)) =>
         req.params.agentOptions = req.network.agentOptions
    /\ (~IsTruthy(req.given.proxy) /\ IsTruthy(req.given.url)
          /\ ProxyConfigured(req.network)) =>
         req.params.proxy = NetworkProxy(req.given.url, req.network)
    /\ (~IsTruthy(req.given.passphrase) /\ IsTruthy(req.network.passphrase)) =>
         req.params.passphrase = req.network.passphrase
    /\ (req.given.strictSSL = Undefined /\ req.network.strictSSL # Undefined) =>
         req.params.strictSSL = req.network.strictSSL

\* C19: after the call, a proxy the caller supplied is the proxy of params;
\* with a url, no proxy, and httpsProxy or httpProxy configured, the proxy
\* is httpsProxy (else httpProxy) for a url starting with https and
\* httpProxy (else httpsProxy) for any other url; with no url, or with
\* neither configured, the proxy is what the caller passed.
C19_ProxySelection ==
  RequestDone =>
    IF IsTruthy(req.given.proxy) THEN req.params.proxy = req.given.proxy
    ELSE IF IsTruthy(req.given.url) /\ ProxyConfigured(req.network)
    THEN req.params.proxy = NetworkProxy(req.given.url, req.network)
    ELSE req.params.proxy = req.given.proxy

====
